---- MODULE Spec2Model ----
(***************************************************************************)
(* A model of the log window options of the k9s data-access layer          *)
(* (internal/dao/log_options.go): the LogOptions value, its Clone, its     *)
(* ToggleAllContainers mutator and its translation to the fetch            *)
(* parameters of the cluster API (ToPodLogOptions); of the view extenders  *)
(* that add the logs, set-image and trace-logs commands to a resource      *)
(* view; of the log streams a TailLogs call opens; and of the accessors    *)
(* NonResource and Container (internal/dao/non_resource.go, container.go), *)
(* the latter listing the containers of a pod.                             *)
(*                                                                         *)
(* LogOptions values live in a heap and are reached through references,    *)
(* as the Go code reaches them through *LogOptions pointers, so that       *)
(* sharing between an original and its clone is something the model can    *)
(* express.                                                                *)
(***************************************************************************)
EXTENDS Integers, Sequences, FiniteSets, TLC

VARIABLES
    heap,    \* heap[a]: the LogOptions struct stored at address a
    ref,     \* ref[h]: the address held by the h-th *LogOptions pointer
    last,    \* the most recent call: its name, receiver, prior heap, result
    nwrites, \* number of direct field assignments made so far
    layers,  \* the extenders composed over the base view, innermost first
    keys,    \* the shared key-action collection of the view's table
    app,     \* the application: configuration, loop, dialog page, views
    ev,      \* the most recent input event and the calls its handler made
    streams, \* the log streams opened by a TailLogs call
    nr,      \* the NonResource of an accessor: Factory, gvr and the lock mx
    ops      \* the accessor operations: position, arguments, reads, result

logVars == <<heap, ref, last, nwrites>>

viewVars == <<layers, keys, app, ev>>

daoVars == <<nr, ops>>

vars ==
    <<heap, ref, last, nwrites, layers, keys, app, ev, streams, nr, ops>>

-----------------------------------------------------------------------------
(* Bounds of the model.                                                    *)

\* Most LogOptions structs alive at once (the original and its clones).
MaxObjs == 2

\* Most direct field assignments in one behaviour.
MaxWrites == 1

-----------------------------------------------------------------------------
(* Strings that are parsed are sequences of one-character strings.         *)

EmptyStr == <<>>

\* "2024-02-29T23:59:59Z": the last second of a leap day, UTC.
TsLeapDay ==
    <<"2","0","2","4","-","0","2","-","2","9","T",
      "2","3",":","5","9",":","5","9","Z">>

\* "2024-03-10T08:30:00.5+02:00": fractional seconds and a zone offset.
TsZoned ==
    <<"2","0","2","4","-","0","3","-","1","0","T",
      "0","8",":","3","0",":","0","0",".","5","+","0","2",":","0","0">>

\* "2023-02-29T10:00:00Z": right shape, but 2023 has no 29th of February.
TsBadDay ==
    <<"2","0","2","3","-","0","2","-","2","9","T",
      "1","0",":","0","0",":","0","0","Z">>

\* "2024-03-10 08:30:00Z": a blank where the layout has the letter T.
TsBlank ==
    <<"2","0","2","4","-","0","3","-","1","0"," ",
      "0","8",":","3","0",":","0","0","Z">>

\* "5m": a duration typed where a timestamp is expected.
TsJunk == <<"5","m">>

-----------------------------------------------------------------------------
(* time.Parse(time.RFC3339, s) and time.Time.Add, on the instants above.   *)

Digits == {"0","1","2","3","4","5","6","7","8","9"}

DigitVal ==
    ("0" :> 0) @@ ("1" :> 1) @@ ("2" :> 2) @@ ("3" :> 3) @@ ("4" :> 4) @@
    ("5" :> 5) @@ ("6" :> 6) @@ ("7" :> 7) @@ ("8" :> 8) @@ ("9" :> 9)

IsDigits(s, i, n) == \A k \in i..(i + n - 1) : k <= Len(s) /\ s[k] \in Digits

RECURSIVE Atoi(_, _, _)
Atoi(s, i, n) ==
    IF n = 0 THEN 0 ELSE Atoi(s, i, n - 1) * 10 + DigitVal[s[i + n - 1]]

IsLeap(y) == (y % 4 = 0) /\ ((y % 100 # 0) \/ (y % 400 = 0))

DaysIn(m, y) ==
    IF m = 2 THEN (IF IsLeap(y) THEN 29 ELSE 28)
    ELSE IF m \in {4, 6, 9, 11} THEN 30 ELSE 31

DaysBefore == <<0, 31, 59, 90, 120, 151, 181, 212, 243, 273, 304, 334>>

LeapsThrough(y) == (y \div 4) - (y \div 100) + (y \div 400)

\* Days from 1970-01-01 to the given civil date.
DaysSinceEpoch(y, m, d) ==
    365 * (y - 1970) + (LeapsThrough(y - 1) - LeapsThrough(1969))
    + DaysBefore[m] + (IF m > 2 /\ IsLeap(y) THEN 1 ELSE 0) + (d - 1)

\* Length of the run of digits of s that starts at position i.
RECURSIVE DigitRun(_, _)
DigitRun(s, i) ==
    IF i <= Len(s) /\ s[i] \in Digits THEN 1 + DigitRun(s, i + 1) ELSE 0

RECURSIVE Pow10(_)
Pow10(n) == IF n = 0 THEN 1 ELSE 10 * Pow10(n - 1)

\* Nanoseconds denoted by the n fraction digits of s from position i on.
Nanos(s, i, n) ==
    IF n = 0 THEN 0
    ELSE IF n <= 9 THEN Atoi(s, i, n) * Pow10(9 - n)
    ELSE Atoi(s, i, 9)

\* An instant: seconds and nanoseconds since the epoch, and the offset of
\* the zone it is shown in.
ZeroTime == [sec |-> 0, nsec |-> 0, off |-> 0]

ParseRFC3339(s) ==
    LET shape ==
            /\ Len(s) >= 20
            /\ IsDigits(s, 1, 4) /\ s[5] = "-"
            /\ IsDigits(s, 6, 2) /\ s[8] = "-"
            /\ IsDigits(s, 9, 2) /\ s[11] = "T"
            /\ IsDigits(s, 12, 2) /\ s[14] = ":"
            /\ IsDigits(s, 15, 2) /\ s[17] = ":"
            /\ IsDigits(s, 18, 2)
        hasFrac == Len(s) >= 21 /\ s[20] = "." /\ s[21] \in Digits
        fracLen == IF hasFrac THEN DigitRun(s, 21) ELSE 0
        z       == IF hasFrac THEN 21 + fracLen ELSE 20
        utc     == Len(s) = z /\ s[z] = "Z"
        numeric ==
            /\ Len(s) = z + 5
            /\ s[z] \in {"+", "-"}
            /\ IsDigits(s, z + 1, 2) /\ s[z + 3] = ":"
            /\ IsDigits(s, z + 4, 2)
            /\ Atoi(s, z + 1, 2) < 24 /\ Atoi(s, z + 4, 2) < 60
        year  == Atoi(s, 1, 4)
        month == Atoi(s, 6, 2)
        day   == Atoi(s, 9, 2)
        hour  == Atoi(s, 12, 2)
        min   == Atoi(s, 15, 2)
        sec   == Atoi(s, 18, 2)
        inRange ==
            /\ month \in 1..12
            /\ day \in 1..DaysIn(month, year)
            /\ hour < 24 /\ min < 60 /\ sec < 60
        off ==
            IF utc THEN 0
            ELSE (IF s[z] = "-" THEN -1 ELSE 1)
                 * (Atoi(s, z + 1, 2) * 3600 + Atoi(s, z + 4, 2) * 60)
    IN  IF shape /\ (utc \/ numeric) /\ inRange
        THEN [ok |-> TRUE,
              t  |-> [sec  |-> DaysSinceEpoch(year, month, day) * 86400
                               + hour * 3600 + min * 60 + sec - off,
                      nsec |-> Nanos(s, 21, fracLen),
                      off  |-> off]]
        ELSE [ok |-> FALSE, t |-> ZeroTime]

\* t.Add(n * time.Second)
AddSeconds(t, n) == [t EXCEPT !.sec = @ + n]

-----------------------------------------------------------------------------
(* The values of the fields of a LogOptions (log_options.go:31-45).        *)

Durations  == {0, 1}
Paths      == {"ns1/po1", "po2"}
Containers == {"", "c1", "c2"}
SinceTimes == {EmptyStr, TsLeapDay, TsZoned, TsBadDay, TsBlank, TsJunk}
LineCounts == {0, 100}
SinceSecs  == {-60, -1, 0, 1, 300}

FieldDom ==
    [CreateDuration   |-> Durations,
     Path             |-> Paths,
     Container        |-> Containers,
     DefaultContainer |-> Containers,
     SinceTime        |-> SinceTimes,
     Lines            |-> LineCounts,
     SinceSeconds     |-> SinceSecs,
     Head             |-> BOOLEAN,
     Previous         |-> BOOLEAN,
     SingleContainer  |-> BOOLEAN,
     MultiPods        |-> BOOLEAN,
     ShowTimestamp    |-> BOOLEAN,
     AllContainers    |-> BOOLEAN]

Fields == DOMAIN FieldDom

LogOptions ==
    [CreateDuration   : Durations,
     Path             : Paths,
     Container        : Containers,
     DefaultContainer : Containers,
     SinceTime        : SinceTimes,
     Lines            : LineCounts,
     SinceSeconds     : SinceSecs,
     Head             : BOOLEAN,
     Previous         : BOOLEAN,
     SingleContainer  : BOOLEAN,
     MultiPods        : BOOLEAN,
     ShowTimestamp    : BOOLEAN,
     AllContainers    : BOOLEAN]

-----------------------------------------------------------------------------
(* v1.PodLogOptions.  A pointer field is a record: set says whether the    *)
(* pointer is non-nil, val is what it points to when the value is          *)
(* returned.                                                               *)

Nil       == [set |-> FALSE, val |-> 0]
Ptr(v)    == [set |-> TRUE, val |-> v]
NilTime   == [set |-> FALSE, val |-> ZeroTime]

\* var maxBytes int64 = 5000
maxBytes == 5000

\* The composite literal built first.
BaseOptions(o) ==
    [Follow       |-> TRUE,
     Timestamps   |-> TRUE,
     Container    |-> o.Container,
     Previous     |-> o.Previous,
     TailLines    |-> Ptr(o.Lines),
     SinceSeconds |-> Nil,
     SinceTime    |-> NilTime,
     LimitBytes   |-> Nil]

\* A head branch that switches following off and caps the bytes but leaves
\* the tail count in place.
HeadOptionsKeepTail(opts) ==
    [opts EXCEPT !.Follow     = FALSE,
                 !.LimitBytes = Ptr(maxBytes)]

\* The body of "if o.Head".
HeadOptions(opts) ==
    [opts EXCEPT !.Follow       = FALSE,
                 !.TailLines    = Nil,
                 !.SinceSeconds = Nil,
                 !.SinceTime    = NilTime,
                 !.LimitBytes   = Ptr(maxBytes)]

\* A guard that takes -1 for a duration.
NoSinceBelowMinusOne(o) == o.SinceSeconds < -1

\* "if o.SinceSeconds < 0": no time constraint at all.
NoSince(o) == o.SinceSeconds < 0

\* A guard that lets a given timestamp win over the duration.
HasSinceSecondsOnly(o) == o.SinceSeconds # 0 /\ o.SinceTime = EmptyStr

\* "if o.SinceSeconds != 0": the duration is used and the timestamp is not.
HasSinceSeconds(o) == o.SinceSeconds # 0

\* The body of "if o.SinceSeconds != 0".
SinceSecondsOptions(o, opts) ==
    [opts EXCEPT !.SinceSeconds = Ptr(o.SinceSeconds), !.SinceTime = NilTime]

\* A translation that uses the parsed instant as it is.
SinceTimeOptionsExact(o, opts) ==
    LET p == ParseRFC3339(o.SinceTime)
    IN  IF p.ok
        THEN [opts EXCEPT !.SinceTime = Ptr(p.t)]
        ELSE opts

\* A translation that does not look at the error of the parse.
SinceTimeOptionsUnchecked(o, opts) ==
    LET p == ParseRFC3339(o.SinceTime)
    IN  [opts EXCEPT !.SinceTime = Ptr(AddSeconds(p.t, 1))]

\* The parse of o.SinceTime and the assignment it guards.
SinceTimeOptions(o, opts) ==
    LET p == ParseRFC3339(o.SinceTime)
    IN  IF p.ok
        THEN [opts EXCEPT !.SinceTime = Ptr(AddSeconds(p.t, 1))]
        ELSE opts

\* The value ToPodLogOptions returns for the LogOptions o.
PodLogOptions(o) ==
    LET opts == BaseOptions(o)
    IN  IF o.Head THEN HeadOptions(opts)
        ELSE IF NoSince(o) THEN opts
        ELSE IF HasSinceSeconds(o) THEN SinceSecondsOptions(o, opts)
        ELSE IF o.SinceTime = EmptyStr THEN opts
        ELSE SinceTimeOptions(o, opts)

-----------------------------------------------------------------------------
(* Calls.                                                                  *)

NoRes == <<>>

\* The record of a call: run is 2 when the call before it was the same call
\* through the same pointer, and 1 otherwise.
Call(op, h, res) ==
    [op  |-> op, via |-> h, pre |-> heap, res |-> res,
     run |-> IF last.op = op /\ last.via = h THEN 2 ELSE 1]

NoCall == [op |-> "new", via |-> 0, pre |-> <<>>, res |-> NoRes, run |-> 0]

Refs == DOMAIN ref

\* The struct the h-th pointer points to.
Deref(h) == heap[ref[h]]

\* No view is composed and no stream is open.
NoEvent ==
    [src |-> "none", cmd |-> "", key |-> "", layer |-> 0,
     sel |-> <<>>, path |-> <<>>, trace |-> <<>>]

NoApp ==
    [phase |-> "off", readOnly |-> FALSE, running |-> TRUE,
     dialog |-> "none", dpath |-> <<>>, nviews |-> 0]

\* The zero value of a NonResource: no factory (both words of the
\* interface value nil), the empty gvr, the lock free.
ZeroNonResource ==
    [tab |-> 0, data |-> 0, gvr |-> 0, writer |-> FALSE, readers |-> 0]

NoDao ==
    /\ nr = ZeroNonResource
    /\ ops = <<>>

NoView ==
    /\ layers = <<>>
    /\ keys = <<>>
    /\ app = NoApp
    /\ ev = NoEvent
    /\ streams = <<>>

\* A caller holds a LogOptions with any field values.
InitAny ==
    /\ \E o \in LogOptions : heap = <<o>>
    /\ ref = <<1>>
    /\ last = NoCall
    /\ nwrites = 0
    /\ NoView
    /\ NoDao

\* o.ToPodLogOptions() through the h-th pointer: reads o, changes nothing.
ToPodLogOptions(h) ==
    /\ last' = Call("ToPodLogOptions", h, PodLogOptions(Deref(h)))
    /\ UNCHANGED <<heap, ref, nwrites, viewVars, streams, daoVars>>

\* A toggle without the SingleContainer guard.
ToggledUnguarded(o) ==
    IF ~o.AllContainers
    THEN [o EXCEPT !.AllContainers = TRUE,
                   !.DefaultContainer = o.Container,
                   !.Container = ""]
    ELSE IF o.DefaultContainer # ""
    THEN [o EXCEPT !.AllContainers = FALSE, !.Container = o.DefaultContainer]
    ELSE [o EXCEPT !.AllContainers = FALSE]

\* A toggle that restores the remembered name even when there is none.
ToggledAlwaysRestore(o) ==
    IF o.SingleContainer THEN o
    ELSE IF ~o.AllContainers
    THEN [o EXCEPT !.AllContainers = TRUE,
                   !.DefaultContainer = o.Container,
                   !.Container = ""]
    ELSE [o EXCEPT !.AllContainers = FALSE, !.Container = o.DefaultContainer]

\* A toggle that clears the container name without remembering it.
ToggledForgetful(o) ==
    IF o.SingleContainer THEN o
    ELSE IF ~o.AllContainers
    THEN [o EXCEPT !.AllContainers = TRUE, !.Container = ""]
    ELSE IF o.DefaultContainer # ""
    THEN [o EXCEPT !.AllContainers = FALSE, !.Container = o.DefaultContainer]
    ELSE [o EXCEPT !.AllContainers = FALSE]

\* A toggle that flips the flag before it looks at SingleContainer.
ToggledFlipFirst(o) ==
    IF o.SingleContainer THEN [o EXCEPT !.AllContainers = ~o.AllContainers]
    ELSE IF ~o.AllContainers
    THEN [o EXCEPT !.AllContainers = TRUE,
                   !.DefaultContainer = o.Container,
                   !.Container = ""]
    ELSE IF o.DefaultContainer # ""
    THEN [o EXCEPT !.AllContainers = FALSE, !.Container = o.DefaultContainer]
    ELSE [o EXCEPT !.AllContainers = FALSE]

\* A toggle that turns all containers on without emptying the container.
ToggledKeepContainer(o) ==
    IF o.SingleContainer THEN o
    ELSE IF ~o.AllContainers
    THEN [o EXCEPT !.AllContainers = TRUE,
                   !.DefaultContainer = o.Container]
    ELSE IF o.DefaultContainer # ""
    THEN [o EXCEPT !.AllContainers = FALSE, !.Container = o.DefaultContainer]
    ELSE [o EXCEPT !.AllContainers = FALSE]

\* The LogOptions o after o.ToggleAllContainers().
Toggled(o) ==
    IF o.SingleContainer THEN o
    ELSE IF ~o.AllContainers
    THEN [o EXCEPT !.AllContainers = TRUE,
                   !.DefaultContainer = o.Container,
                   !.Container = ""]
    ELSE IF o.DefaultContainer # ""
    THEN [o EXCEPT !.AllContainers = FALSE, !.Container = o.DefaultContainer]
    ELSE [o EXCEPT !.AllContainers = FALSE]

\* The struct o.Clone() builds: the composite literal names twelve of the
\* thirteen fields, and a field it does not name has its zero value.
Cloned(o) ==
    [CreateDuration   |-> 0,
     Path             |-> o.Path,
     Container        |-> o.Container,
     DefaultContainer |-> o.DefaultContainer,
     Lines            |-> o.Lines,
     Previous         |-> o.Previous,
     Head             |-> o.Head,
     SingleContainer  |-> o.SingleContainer,
     MultiPods        |-> o.MultiPods,
     ShowTimestamp    |-> o.ShowTimestamp,
     SinceTime        |-> o.SinceTime,
     SinceSeconds     |-> o.SinceSeconds,
     AllContainers    |-> o.AllContainers]

\* o.ToggleAllContainers() through the h-th pointer.
ToggleAllContainers(h) ==
    /\ heap' = [heap EXCEPT ![ref[h]] = Toggled(@)]
    /\ last' = Call("ToggleAllContainers", h, NoRes)
    /\ UNCHANGED <<ref, nwrites, viewVars, streams, daoVars>>

\* A Clone that hands back its receiver instead of a new struct.
CloneAlias(h) ==
    /\ Len(ref) < MaxObjs
    /\ ref' = Append(ref, ref[h])
    /\ last' = Call("Clone", h, Len(ref) + 1)
    /\ UNCHANGED <<heap, nwrites, viewVars, streams, daoVars>>

\* o.Clone() through the h-th pointer: a new struct at a new address, and a
\* new pointer to it (the result names that pointer).
Clone(h) ==
    /\ Len(ref) < MaxObjs
    /\ heap' = Append(heap, Cloned(Deref(h)))
    /\ ref' = Append(ref, Len(heap) + 1)
    /\ last' = Call("Clone", h, Len(ref) + 1)
    /\ UNCHANGED <<nwrites, viewVars, streams, daoVars>>

\* The values the holders of a pointer assign to the fields: each flag both
\* ways, every container name, and for each other field one value that
\* buildLogOpts does not produce.
Assigned ==
    [CreateDuration   |-> {1},
     Path             |-> {"po2"},
     Container        |-> Containers,
     DefaultContainer |-> {"c2"},
     SinceTime        |-> {TsLeapDay},
     Lines            |-> {0},
     SinceSeconds     |-> {300},
     Head             |-> BOOLEAN,
     Previous         |-> BOOLEAN,
     SingleContainer  |-> BOOLEAN,
     MultiPods        |-> BOOLEAN,
     ShowTimestamp    |-> BOOLEAN,
     AllContainers    |-> BOOLEAN]

\* An assignment "o.f = v" by the holder of the h-th pointer: the fields are
\* exported and callers write them.  The record of the call names the
\* field and keeps no copy of the heap.
Write(h, f, v) ==
    /\ nwrites < MaxWrites
    /\ heap' = [heap EXCEPT ![ref[h]][f] = v]
    /\ nwrites' = nwrites + 1
    /\ last' = [Call("Write", h, f) EXCEPT !.pre = <<>>]
    /\ UNCHANGED <<ref, viewVars, streams, daoVars>>

-----------------------------------------------------------------------------
(* view.LogsExtender.buildLogOpts: the options a log view starts from.     *)

buildLogOpts(path, co, prevLogs, tailCount, showTime) ==
    [CreateDuration   |-> 0,
     Path             |-> path,
     Container        |-> co,
     DefaultContainer |-> "",
     SinceTime        |-> EmptyStr,
     Lines            |-> tailCount,
     SinceSeconds     |-> 0,
     Head             |-> FALSE,
     Previous         |-> prevLogs,
     SingleContainer  |-> FALSE,
     MultiPods        |-> FALSE,
     ShowTimestamp    |-> showTime,
     AllContainers    |-> (co = "")]

\* cfg := l.App().Config.K9s.Logger: the tail count and the timestamp flag
\* of the logger configuration.
LoggerConfigs == {[TailCount |-> 100, ShowTime |-> FALSE]}

\* The path of the item whose logs are shown.
ShownPaths == {"ns1/po1"}

\* A log view holds the options buildLogOpts made for it.
InitBuilt ==
    /\ \E path \in ShownPaths, co \in Containers, prevLogs \in BOOLEAN,
          cfg \in LoggerConfigs :
          heap = <<buildLogOpts(path, co, prevLogs,
                                cfg.TailCount, cfg.ShowTime)>>
    /\ ref = <<1>>
    /\ last = NoCall
    /\ nwrites = 0
    /\ NoView
    /\ NoDao

\* The logger configurations a log view may be built under.
BuiltConfigs == [TailCount : {50, 100}, ShowTime : BOOLEAN]

\* A log view holds the options buildLogOpts made for it, for any path,
\* container and configuration.
InitFresh ==
    /\ \E path \in Paths, co \in Containers, prevLogs \in BOOLEAN,
          cfg \in BuiltConfigs :
          heap = <<buildLogOpts(path, co, prevLogs,
                                cfg.TailCount, cfg.ShowTime)>>
    /\ ref = <<1>>
    /\ last = NoCall
    /\ nwrites = 0
    /\ NoView
    /\ NoDao

\* The options a caller may hold when only the container mode matters: what
\* buildLogOpts makes, with any remembered container and any setting of
\* the two mode flags except both at once.
ModeOptions ==
    { [buildLogOpts(path, co, prevLogs, cfg.TailCount, cfg.ShowTime)
          EXCEPT !.DefaultContainer = dco,
                 !.AllContainers    = IF built THEN (co = "") ELSE all,
                 !.SingleContainer  = IF built THEN FALSE ELSE single] :
        path \in ShownPaths, co \in Containers, prevLogs \in BOOLEAN,
        cfg \in LoggerConfigs, dco \in Containers,
        all \in BOOLEAN, single \in BOOLEAN, built \in BOOLEAN }
    \ { o \in LogOptions : o.AllContainers /\ o.SingleContainer }

\* A caller holds options whose two mode flags are not both set.
InitMode ==
    /\ \E o \in ModeOptions : heap = <<o>>
    /\ ref = <<1>>
    /\ last = NoCall
    /\ nwrites = 0
    /\ NoView
    /\ NoDao

-----------------------------------------------------------------------------
(* Resource paths.  A path that is split is a sequence of one-character    *)
(* strings.                                                                *)

\* "ns1/po1", "po2", "ns1/", "/po3": a namespaced path, a bare name, a
\* namespace without a name, a name behind a lone slash.
PathNsName == <<"n","s","1","/","p","o","1">>
PathBare   == <<"p","o","2">>
PathNoName == <<"n","s","1","/">>
PathNoNs   == <<"/","p","o","3">>

\* What GetSelectedItem may return: nothing selected, or one of the above.
SelPaths == {EmptyStr, PathNsName, PathBare, PathNoName, PathNoNs}

\* l.GetTable().Path, the path the view itself shows: "ns2/dp1".
TablePath == <<"n","s","2","/","d","p","1">>

\* Position of the last slash of p, 0 when it has none.
RECURSIVE LastSlash(_, _)
LastSlash(p, i) ==
    IF i = 0 THEN 0 ELSE IF p[i] = "/" THEN i ELSE LastSlash(p, i - 1)

\* strings.Trim(p, "/")
RECURSIVE TrimSlashes(_)
TrimSlashes(p) ==
    IF p = <<>> THEN p
    ELSE IF Head(p) = "/" THEN TrimSlashes(Tail(p))
    ELSE IF p[Len(p)] = "/" THEN TrimSlashes(SubSeq(p, 1, Len(p) - 1))
    ELSE p

\* client.Namespaced(p): the namespace part and the name part of a path,
\* split at its last slash.
Namespaced(p) ==
    LET i == LastSlash(p, Len(p))
    IN  [ns |-> TrimSlashes(SubSeq(p, 1, i)), n |-> SubSeq(p, i + 1, Len(p))]

\* A test that is content with either part.
isResourcePathEither(p) == Namespaced(p).ns # <<>> \/ Namespaced(p).n # <<>>

isResourcePath(p) == Namespaced(p).ns # <<>> /\ Namespaced(p).n # <<>>

-----------------------------------------------------------------------------
(* Bounds of the view model.                                               *)

\* Most extenders composed over one view.
MaxLayers == 2

\* Most log views pushed in one behaviour.
MaxViews == 1

-----------------------------------------------------------------------------
(* The calls a handler makes, in order: the name of the call, the path it  *)
(* is about (if any) and its argument or outcome (if any).                 *)

E(call, path, out) == [call |-> call, path |-> path, out |-> out]

Outcomes == {"ok", "err"}

\* How many calls of the given name a trace has.
RECURSIVE Count(_, _)
Count(tr, call) ==
    IF tr = <<>> THEN 0
    ELSE (IF Head(tr).call = call THEN 1 ELSE 0) + Count(Tail(tr), call)

\* Position of the first call of the given name in a trace, 0 if none.
RECURSIVE IndexFrom(_, _, _)
IndexFrom(tr, call, i) ==
    IF i > Len(tr) THEN 0
    ELSE IF tr[i].call = call THEN i ELSE IndexFrom(tr, call, i + 1)

Index(tr, call) == IndexFrom(tr, call, 1)

\* The application after one call of a handler.
AfterCall(a, e) ==
    IF e.call = "Stop" THEN [a EXCEPT !.running = FALSE]
    ELSE IF e.call = "Start" THEN [a EXCEPT !.running = TRUE]
    ELSE IF e.call = "ShowPage"
    THEN [a EXCEPT !.dialog = e.out, !.dpath = e.path]
    ELSE IF e.call = "RemovePage"
    THEN [a EXCEPT !.dialog = "none", !.dpath = <<>>]
    ELSE IF e.call = "inject" /\ e.out = "ok"
    THEN [a EXCEPT !.nviews = @ + 1]
    ELSE a

\* The application after all the calls of a handler.
RECURSIVE AfterTrace(_, _)
AfterTrace(a, tr) ==
    IF tr = <<>> THEN a ELSE AfterTrace(AfterCall(a, Head(tr)), Tail(tr))

-----------------------------------------------------------------------------
(* Key bindings.                                                           *)

KeyAction(label, cmd, layer, visible) ==
    [label |-> label, cmd |-> cmd, layer |-> layer, visible |-> visible]

\* ui.KeyActions.Add: every binding of aa goes into the collection, over
\* whatever the collection had for its key.
KeyActionsAdd(coll, aa) ==
    [k \in DOMAIN coll \cup DOMAIN aa |->
        IF k \in DOMAIN aa THEN aa[k] ELSE coll[k]]

\* LogsExtender.bindKeys of the i-th layer.
LogsBindKeys(coll, i) ==
    KeyActionsAdd(coll,
        ("L" :> KeyAction("Logs", "logs", i, TRUE)) @@
        ("P" :> KeyAction("Logs Previous", "logsPrev", i, TRUE)))

\* The three bindings of the image extender.
ImageKeyActions(i) ==
    ("I" :> KeyAction("Set Image", "setImage", i, TRUE)) @@
    ("T" :> KeyAction("Trace Logs", "traceLogs", i, TRUE)) @@
    ("O" :> KeyAction("Trace Logs", "traceLogs", i, FALSE))

\* An image extender that leaves alone the keys that are already bound.
ImageBindKeysIfFree(coll, i, readOnly) ==
    IF readOnly THEN coll
    ELSE KeyActionsAdd(ImageKeyActions(i), coll)

\* An image extender that binds its keys whatever the configuration.
ImageBindKeysAlways(coll, i, readOnly) ==
    KeyActionsAdd(coll, ImageKeyActions(i))

\* ImageExtender.bindKeys of the i-th layer.
ImageBindKeys(coll, i, readOnly) ==
    IF readOnly THEN coll
    ELSE KeyActionsAdd(coll, ImageKeyActions(i))

\* The bind functions registered with AddBindKeysFn, run in the order of
\* their registration, from the i-th on.
RECURSIVE RunBindKeysFns(_, _, _, _)
RunBindKeysFns(coll, ls, i, readOnly) ==
    IF i > Len(ls) THEN coll
    ELSE RunBindKeysFns(
            IF ls[i].kind = "logs" THEN LogsBindKeys(coll, i)
            ELSE ImageBindKeys(coll, i, readOnly),
            ls, i + 1, readOnly)

-----------------------------------------------------------------------------
(* The command handlers, as the sequence of calls they make.               *)

\* What the collaborators of showLogs answer: the access check, the
\* optionsFn of the layer, and App.inject.
LogsAnswers == [access : Outcomes, opts : Outcomes, inject : Outcomes]

\* What the collaborators of the set-image workflow answer: the accessor of
\* the resource kind (none, one without pod specs, one with), GetPodSpec
\* and SetImages.
ImageAnswers ==
    [accessor : {"none", "plain", "podspec"},
     podSpec  : Outcomes,
     images   : Outcomes]

\* What running the trace-logs script answers.
ExecAnswers == [exec : Outcomes]

\* A showLogs that goes on after a failed access check.
showLogsNoReturn(path, prev, fn, in) ==
    <<E("showLogs", path, IF prev THEN "previous" ELSE "current"),
      E("CanForResource", Namespaced(path).ns, in.access)>>
    \o (IF in.access # "ok" THEN <<E("Flash.Err", <<>>, "access")>>
        ELSE <<>>)
    \o <<E("buildLogOpts", path, "")>>
    \o (IF fn THEN <<E("optionsFn", <<>>, in.opts)>> ELSE <<>>)
    \o (IF fn /\ in.opts # "ok"
        THEN <<E("Flash.Err", <<>>, "options")>>
        ELSE <<E("inject", path, in.inject)>>
             \o (IF in.inject # "ok"
                 THEN <<E("Flash.Err", <<>>, "inject")>>
                 ELSE <<>>))

\* LogsExtender.showLogs(path, prev); fn says whether optionsFn is set.
showLogs(path, prev, fn, in) ==
    <<E("showLogs", path, IF prev THEN "previous" ELSE "current"),
      E("CanForResource", Namespaced(path).ns, in.access)>>
    \o (IF in.access # "ok"
        THEN <<E("Flash.Err", <<>>, "access")>>
        ELSE <<E("buildLogOpts", path, "")>>
             \o (IF fn THEN <<E("optionsFn", <<>>, in.opts)>> ELSE <<>>)
             \o (IF fn /\ in.opts # "ok"
                 THEN <<E("Flash.Err", <<>>, "options")>>
                 ELSE <<E("inject", path, in.inject)>>
                      \o (IF in.inject # "ok"
                          THEN <<E("Flash.Err", <<>>, "inject")>>
                          ELSE <<>>)))

\* A logs handler that does not look for an empty selection.
logsCmdNoEmptyCheck(prev, sel, fn, in) ==
    showLogs(IF isResourcePath(sel) THEN sel ELSE TablePath, prev, fn, in)

\* The handler LogsExtender.logsCmd(prev) returns, run on the selection sel.
logsCmd(prev, sel, fn, in) ==
    IF sel = EmptyStr THEN <<>>
    ELSE showLogs(IF isResourcePath(sel) THEN sel ELSE TablePath,
                  prev, fn, in)

\* A getPodSpec that takes any accessor to have pod specs.
getPodSpecUnchecked(path, in) ==
    IF in.accessor = "none"
    THEN [err |-> TRUE, trace |-> <<E("AccessorFor", <<>>, "err")>>]
    ELSE [err   |-> in.podSpec # "ok",
          trace |-> <<E("AccessorFor", <<>>, in.accessor),
                      E("GetPodSpec", path, in.podSpec)>>]

\* ImageExtender.getPodSpec(path): the calls, and whether it fails.
getPodSpec(path, in) ==
    IF in.accessor = "none"
    THEN [err |-> TRUE, trace |-> <<E("AccessorFor", <<>>, "err")>>]
    ELSE IF in.accessor = "plain"
    THEN [err |-> TRUE, trace |-> <<E("AccessorFor", <<>>, "plain")>>]
    ELSE [err   |-> in.podSpec # "ok",
          trace |-> <<E("AccessorFor", <<>>, "podspec"),
                      E("GetPodSpec", path, in.podSpec)>>]

\* ImageExtender.showImageDialog(path), makeSetImageForm included.
showImageDialog(path, in) ==
    LET ps == getPodSpec(path, in)
    IN  IF ps.err THEN ps
        ELSE [err   |-> FALSE,
              trace |-> ps.trace \o <<E("AddPage", path, "image"),
                                      E("ShowPage", path, "image")>>]

\* A set-image handler that starts the loop again only after a dialog that
\* opened.
setImageCmdNoDefer(sel, in) ==
    IF sel = EmptyStr THEN <<>>
    ELSE LET d == showImageDialog(sel, in)
         IN  <<E("Stop", <<>>, "")>> \o d.trace
             \o (IF d.err THEN <<E("Flash.Err", <<>>, "dialog")>>
                 ELSE <<E("Start", <<>>, "")>>)

\* ImageExtender.setImageCmd on the selection sel.
setImageCmd(sel, in) ==
    IF sel = EmptyStr THEN <<>>
    ELSE LET d == showImageDialog(sel, in)
         IN  <<E("Stop", <<>>, "")>> \o d.trace
             \o (IF d.err THEN <<E("Flash.Err", <<>>, "dialog")>> ELSE <<>>)
             \o <<E("Start", <<>>, "")>>

\* ImageExtender.showTraceLogsDialog(path): the form is always made.
showTraceLogsDialog(path) ==
    [err   |-> FALSE,
     trace |-> <<E("AddPage", path, "trace"), E("ShowPage", path, "trace")>>]

\* ImageExtender.setTraceLogsCmd on the selection sel.
setTraceLogsCmd(sel) ==
    IF sel = EmptyStr THEN <<>>
    ELSE LET d == showTraceLogsDialog(sel)
         IN  <<E("Stop", <<>>, "")>> \o d.trace
             \o (IF d.err THEN <<E("Flash.Err", <<>>, "dialog")>> ELSE <<>>)
             \o <<E("Start", <<>>, "")>>

\* ImageExtender.setImages(ctx, path, imageSpecs).
setImages(path, in) ==
    IF in.accessor = "none"
    THEN [err |-> TRUE, trace |-> <<E("AccessorFor", <<>>, "err")>>]
    ELSE IF in.accessor = "plain"
    THEN [err |-> TRUE, trace |-> <<E("AccessorFor", <<>>, "plain")>>]
    ELSE [err   |-> in.images # "ok",
          trace |-> <<E("AccessorFor", <<>>, "podspec"),
                      E("SetImages", path, in.images)>>]

\* An OK button that takes the dialog away only after a success.
okButtonKeepOnError(path, in) ==
    LET r == setImages(path, in)
    IN  r.trace
        \o (IF r.err THEN <<E("Flash.Err", <<>>, "images")>>
            ELSE <<E("Flash.Info", <<>>, "images"),
                   E("RemovePage", <<>>, "")>>)

\* The function of the OK button of the set-image form.
okButton(path, in) ==
    LET r == setImages(path, in)
    IN  r.trace
        \o (IF r.err THEN <<E("Flash.Err", <<>>, "images")>>
            ELSE <<E("Flash.Info", <<>>, "images")>>)
        \o <<E("RemovePage", <<>>, "")>>

\* The functions of the Start and Stop buttons of the trace-logs form.
traceButton(b, in) ==
    (IF b = "Start"
     THEN <<E("findLatestFile", <<>>, ""), E("Flash.Info", <<>>, "script")>>
     ELSE <<E("FindTraceLogScript", <<>>, "")>>)
    \o <<E("exec", <<>>, in.exec), E("Flash.Info", <<>>, in.exec),
         E("RemovePage", <<>>, "")>>

\* ImageExtender.dismissDialog.
dismissDialog == <<E("RemovePage", <<>>, "")>>

-----------------------------------------------------------------------------
(* A view and the extenders composed over it.                              *)

\* A view under construction: no extender yet, no key bound, the loop of
\* the view running, no dialog, and the configuration read-only or not.
InitView ==
    /\ heap = <<>>
    /\ ref = <<>>
    /\ last = NoCall
    /\ nwrites = 0
    /\ streams = <<>>
    /\ NoDao
    /\ layers = <<>>
    /\ keys = <<>>
    /\ ev = NoEvent
    /\ \E ro \in BOOLEAN :
        app = [NoApp EXCEPT !.phase = "compose", !.readOnly = ro]

\* The bindings the wrapped view may bring along: none, or one of its own
\* for the key I.
BaseKeys == {<<>>, ("I" :> KeyAction("Inspect", "inspect", 0, TRUE))}

\* A view under construction that may have bindings of its own.
InitKeys ==
    /\ heap = <<>>
    /\ ref = <<>>
    /\ last = NoCall
    /\ nwrites = 0
    /\ streams = <<>>
    /\ NoDao
    /\ layers = <<>>
    /\ keys \in BaseKeys
    /\ ev = NoEvent
    /\ \E ro \in BOOLEAN :
        app = [NoApp EXCEPT !.phase = "compose", !.readOnly = ro]

\* What a step that handles no command leaves in ev.
Composed(what) == [NoEvent EXCEPT !.src = "compose", !.cmd = what]

\* NewLogsExtender(v, optionsFn) wrapped around the layers so far; fn says
\* whether optionsFn is set.
NewLogsExtender(fn) ==
    /\ app.phase = "compose"
    /\ Len(layers) < MaxLayers
    /\ layers' = Append(layers, [kind |-> "logs", optionsFn |-> fn])
    /\ ev' = Composed("NewLogsExtender")
    /\ UNCHANGED <<keys, app, logVars, streams, daoVars>>

\* NewImageExtender(v) wrapped around the layers so far.
NewImageExtender ==
    /\ app.phase = "compose"
    /\ Len(layers) < MaxLayers
    /\ layers' = Append(layers, [kind |-> "image", optionsFn |-> FALSE])
    /\ ev' = Composed("NewImageExtender")
    /\ UNCHANGED <<keys, app, logVars, streams, daoVars>>

\* The view is initialised and runs the registered bind functions.
BindKeys ==
    /\ app.phase = "compose"
    /\ layers # <<>>
    /\ keys' = RunBindKeysFns(keys, layers, 1, app.readOnly)
    /\ app' = [app EXCEPT !.phase = "ready"]
    /\ ev' = Composed("bindKeys")
    /\ UNCHANGED <<layers, logVars, streams, daoVars>>

\* The event a handler leaves behind.
Handled(src, cmd, k, layer, sel, tr) ==
    [src |-> src, cmd |-> cmd, key |-> k, layer |-> layer, sel |-> sel,
     path |-> IF tr = <<>> THEN <<>> ELSE IF tr[1].call = "showLogs"
              THEN tr[1].path
              ELSE IF Index(tr, "ShowPage") # 0
              THEN tr[Index(tr, "ShowPage")].path ELSE <<>>,
     trace |-> tr]

\* A key bound to logsCmd(prev) is pressed over the selection sel.
LogsKey(k, sel, in) ==
    /\ app.phase = "ready"
    /\ k \in DOMAIN keys
    /\ keys[k].cmd \in {"logs", "logsPrev"}
    /\ LET tr == logsCmd(keys[k].cmd = "logsPrev", sel,
                         layers[keys[k].layer].optionsFn, in)
       IN  /\ AfterTrace(app, tr).nviews <= MaxViews
           /\ app' = AfterTrace(app, tr)
           /\ ev' = Handled("key", keys[k].cmd, k, keys[k].layer, sel, tr)
    /\ UNCHANGED <<layers, keys, logVars, streams, daoVars>>

\* A key bound to setImageCmd is pressed over the selection sel.
SetImageKey(k, sel, in) ==
    /\ app.phase = "ready"
    /\ k \in DOMAIN keys
    /\ keys[k].cmd = "setImage"
    /\ LET tr == setImageCmd(sel, in)
       IN  /\ app' = AfterTrace(app, tr)
           /\ ev' = Handled("key", "setImage", k, keys[k].layer, sel, tr)
    /\ UNCHANGED <<layers, keys, logVars, streams, daoVars>>

\* A key bound to setTraceLogsCmd is pressed over the selection sel.
TraceLogsKey(k, sel) ==
    /\ app.phase = "ready"
    /\ k \in DOMAIN keys
    /\ keys[k].cmd = "traceLogs"
    /\ LET tr == setTraceLogsCmd(sel)
       IN  /\ app' = AfterTrace(app, tr)
           /\ ev' = Handled("key", "traceLogs", k, keys[k].layer, sel, tr)
    /\ UNCHANGED <<layers, keys, logVars, streams, daoVars>>

\* The OK button of the set-image form.
ImageOK(in) ==
    /\ app.dialog = "image"
    /\ LET tr == okButton(app.dpath, in)
       IN  /\ app' = AfterTrace(app, tr)
           /\ ev' = Handled("button", "imageOK", "", 0, app.dpath, tr)
    /\ UNCHANGED <<layers, keys, logVars, streams, daoVars>>

\* The Cancel button of either form, or the done function of the modal.
Dismiss(b) ==
    /\ app.dialog # "none"
    /\ app' = AfterTrace(app, dismissDialog)
    /\ ev' = Handled("button", b, "", 0, app.dpath, dismissDialog)
    /\ UNCHANGED <<layers, keys, logVars, streams, daoVars>>

\* The Start or the Stop button of the trace-logs form.
TraceButton(b, in) ==
    /\ app.dialog = "trace"
    /\ LET tr == traceButton(b, in)
       IN  /\ app' = AfterTrace(app, tr)
           /\ ev' = Handled("button", b, "", 0, app.dpath, tr)
    /\ UNCHANGED <<layers, keys, logVars, streams, daoVars>>

-----------------------------------------------------------------------------
(* Log streams: what one TailLogs call hands back.                         *)

\* Most streams one TailLogs call opens.
MaxStreams == 2

\* Most entries delivered on one stream.
MaxLines == 2

\* NewLogItem(bytes): an entry that is not an error.
NewLogItem(bytes) == [Bytes |-> bytes, IsError |-> FALSE]

\* An error entry that is not marked as one.
ToErrLogItemUnmarked(t, err) == NewLogItem(<<t, "[orange::b]", err, "[::-]">>)

\* LogOptions.ToErrLogItem(err) at the time t: the time, then the error
\* between its colour marks, flagged as an error.
ToErrLogItem(t, err) ==
    [NewLogItem(<<t, "[orange::b]", err, "[::-]">>) EXCEPT !.IsError = TRUE]

\* Entries delivered so far on the streams from the i-th on.
RECURSIVE Delivered(_, _)
Delivered(ss, i) ==
    IF i > Len(ss) THEN 0 ELSE Len(ss[i].out) + Delivered(ss, i + 1)

\* The time of the next delivery: deliveries are counted.
Clock == Delivered(streams, 1) + 1

\* Nothing but streams: no LogOptions, no view.
InitStreams ==
    /\ heap = <<>>
    /\ ref = <<>>
    /\ last = NoCall
    /\ nwrites = 0
    /\ NoView
    /\ NoDao

\* Container.TailLogs: the pod accessor opens one stream per log source,
\* n of them.
TailLogs(n) ==
    /\ streams = <<>>
    /\ streams' = [i \in 1..n |->
                      [state |-> "open", failed |-> FALSE, out |-> <<>>]]
    /\ UNCHANGED <<logVars, viewVars, daoVars>>

\* The source of the i-th stream yields a line, which is delivered.
Deliver(i) ==
    /\ streams[i].state = "open"
    /\ Len(streams[i].out) < MaxLines
    /\ streams' = [streams EXCEPT
                      ![i].out = Append(@, NewLogItem(<<Clock, "line">>))]
    /\ UNCHANGED <<logVars, viewVars, daoVars>>

\* The source of the i-th stream fails: the error is delivered as an entry
\* and the stream closes.
Fail(i) ==
    /\ streams[i].state = "open"
    /\ streams' = [streams EXCEPT
                      ![i].out = Append(@, ToErrLogItem(Clock, "EOF")),
                      ![i].failed = TRUE,
                      ![i].state = "closed"]
    /\ UNCHANGED <<logVars, viewVars, daoVars>>

\* The source of the i-th stream is exhausted, or its context is cancelled:
\* the stream closes.
Close(i) ==
    /\ streams[i].state = "open"
    /\ streams' = [streams EXCEPT ![i].state = "closed"]
    /\ UNCHANGED <<logVars, viewVars, daoVars>>

-----------------------------------------------------------------------------
(* NonResource and its lock, with operations running side by side.  A      *)
(* Factory is an interface value, two words (tab, data) that are stored    *)
(* and loaded one after the other; the factory and the gvr of one Init     *)
(* call carry the same number, so that a reader can tell what it saw.      *)

\* Most operations running side by side.
MaxProcs == 2

\* The operations of an accessor, and the argument of each: whether the
\* context of a List carries a path and asks for metrics.
OpKinds == {"Init", "GetFactory", "GVR", "List", "TailLogs"}

OpArgs(op) ==
    IF op = "List" THEN {"nopath", "path", "path+metrics"} ELSE {""}

\* An operation that has not begun.
Idle == [op |-> "", arg |-> "", pc |-> "idle", obs |-> <<>>]

\* One load of a field of the NonResource: the words loaded, and whether
\* the loader held the lock.
Load(field, words, locked) ==
    [field |-> field, words |-> words, locked |-> locked]

\* An accessor bound by an earlier Init, number 1, and operations yet to
\* begin.
InitAccessor ==
    /\ heap = <<>>
    /\ ref = <<>>
    /\ last = NoCall
    /\ nwrites = 0
    /\ NoView
    /\ nr = [ZeroNonResource EXCEPT !.tab = 1, !.data = 1, !.gvr = 1]
    /\ ops = [p \in 1..MaxProcs |-> Idle]

\* Where an operation begins.
FirstPc(op) ==
    IF op = "Init" THEN "Lock"
    ELSE IF op \in {"GetFactory", "GVR"} THEN "RLock"
    ELSE IF op = "List" THEN "ctx"
    ELSE "c.Factory"

\* The p-th operation begins.
Begin(p, op, arg) ==
    /\ ops[p].pc = "idle"
    /\ ops' = [ops EXCEPT ![p] = [Idle EXCEPT !.op = op, !.arg = arg,
                                              !.pc = FirstPc(op)]]
    /\ UNCHANGED <<nr, logVars, viewVars, streams>>

\* Init: n.mx.Lock().
InitLock(p) ==
    /\ ops[p].pc = "Lock"
    /\ ~nr.writer /\ nr.readers = 0
    /\ nr' = [nr EXCEPT !.writer = TRUE]
    /\ ops' = [ops EXCEPT ![p].pc = "store tab"]
    /\ UNCHANGED <<logVars, viewVars, streams>>

\* Init: n.Factory, n.gvr = f, gvr, one word at a time; the Init of the
\* p-th operation binds factory and gvr number p + 1.
InitStore(p) ==
    /\ ops[p].pc \in {"store tab", "store data", "store gvr"}
    /\ nr' = IF ops[p].pc = "store tab" THEN [nr EXCEPT !.tab = p + 1]
             ELSE IF ops[p].pc = "store data" THEN [nr EXCEPT !.data = p + 1]
             ELSE [nr EXCEPT !.gvr = p + 1]
    /\ ops' = [ops EXCEPT ![p].pc =
                  IF @ = "store tab" THEN "store data"
                  ELSE IF @ = "store data" THEN "store gvr" ELSE "Unlock"]
    /\ UNCHANGED <<logVars, viewVars, streams>>

\* Init: n.mx.Unlock().
InitUnlock(p) ==
    /\ ops[p].pc = "Unlock"
    /\ nr' = [nr EXCEPT !.writer = FALSE]
    /\ ops' = [ops EXCEPT ![p].pc = "done"]
    /\ UNCHANGED <<logVars, viewVars, streams>>

\* GetFactory, GVR: n.mx.RLock().
RLock(p) ==
    /\ ops[p].pc = "RLock"
    /\ ~nr.writer
    /\ nr' = [nr EXCEPT !.readers = @ + 1]
    /\ ops' = [ops EXCEPT ![p].pc = "load"]
    /\ UNCHANGED <<logVars, viewVars, streams>>

\* GetFactory: return n.Factory; GVR: return n.gvr.String(); the deferred
\* RUnlock follows.  The GetFactory of a List is the one of fetchPod.
LockedLoad(p) ==
    /\ ops[p].pc = "load"
    /\ ops' = [ops EXCEPT
                  ![p].obs = Append(@,
                      IF ops[p].op = "GVR"
                      THEN Load("gvr", <<nr.gvr>>, TRUE)
                      ELSE Load("Factory", <<nr.tab, nr.data>>, TRUE)),
                  ![p].pc = "RUnlock"]
    /\ UNCHANGED <<nr, logVars, viewVars, streams>>

RUnlock(p) ==
    /\ ops[p].pc = "RUnlock"
    /\ nr' = [nr EXCEPT !.readers = @ - 1]
    /\ ops' = [ops EXCEPT ![p].pc = "done"]
    /\ UNCHANGED <<logVars, viewVars, streams>>

\* Container.List without a path in its context: the error names c.gvr,
\* loaded as it is.
ListNoPath(p) ==
    /\ ops[p].pc = "ctx"
    /\ ops[p].arg = "nopath"
    /\ ops' = [ops EXCEPT
                  ![p].obs = Append(@, Load("gvr", <<nr.gvr>>, FALSE)),
                  ![p].pc = "done"]
    /\ UNCHANGED <<nr, logVars, viewVars, streams>>

\* Container.List with a path: when metrics are wanted, c.Client() loads
\* the embedded Factory as it is; then fetchPod calls c.GetFactory().
ListMetrics(p) ==
    /\ ops[p].pc = "ctx"
    /\ ops[p].arg # "nopath"
    /\ ops' = [ops EXCEPT
                  ![p].obs =
                      IF ops[p].arg = "path+metrics"
                      THEN Append(@, Load("Factory", <<nr.tab, nr.data>>,
                                          FALSE))
                      ELSE @,
                  ![p].pc = "RLock"]
    /\ UNCHANGED <<nr, logVars, viewVars, streams>>

\* Container.TailLogs: po.Init(c.Factory, ...) loads the embedded Factory
\* as it is.
TailLogsLoad(p) ==
    /\ ops[p].pc = "c.Factory"
    /\ ops' = [ops EXCEPT
                  ![p].obs = Append(@, Load("Factory", <<nr.tab, nr.data>>,
                                            FALSE)),
                  ![p].pc = "done"]
    /\ UNCHANGED <<nr, logVars, viewVars, streams>>

-----------------------------------------------------------------------------
(* The Container accessor, one call at a time: List, Get and TailLogs.     *)

\* The names a pod may give its init containers and its regular ones.
InitNames == {"i1", "i2"}

CoNames == {"c1", "c2"}

\* The sequences without repetition of containers with the given names.
Declared(names) ==
    { [i \in DOMAIN g |-> [Name |-> g[i]]] :
        g \in { h \in UNION {[1..m -> names] : m \in 0..Cardinality(names)} :
                  \A i, j \in DOMAIN h : h[i] = h[j] => i = j } }

\* The names of a sequence of containers or of records.
RECURSIVE NamesOf(_)
NamesOf(cs) ==
    IF cs = <<>> THEN <<>> ELSE <<Head(cs).Name>> \o NamesOf(Tail(cs))

\* The pods a Factory may hold: their declared containers and, once they
\* have started, a status for each.
Pods ==
    { [InitContainers |-> ics, Containers |-> cs,
       Status |-> IF started
                  THEN [ContainerStatuses     |-> NamesOf(cs),
                        InitContainerStatuses |-> NamesOf(ics)]
                  ELSE [ContainerStatuses     |-> <<>>,
                        InitContainerStatuses |-> <<>>],
       Age |-> 1] :
        ics \in Declared(InitNames), cs \in Declared(CoNames),
        started \in BOOLEAN }

\* The zero value of a pod.
ZeroPod ==
    [InitContainers |-> <<>>, Containers |-> <<>>,
     Status |-> [ContainerStatuses |-> <<>>, InitContainerStatuses |-> <<>>],
     Age |-> 0]

\* The contexts of a call: the value under internal.KeyPath ("" when there
\* is none) and the value under internal.KeyWithMetrics.
NoPath == ""

Contexts ==
    [KeyPath : {NoPath, "ns1/po1"}, KeyWithMetrics : {"none", "true", "false"}]

\* What the cluster answers to a List: the metrics fetch fails or not, and
\* Factory.Get fails, or yields an object that is the pod, or one that does
\* not convert to a pod.
Worlds ==
    [metrics : Outcomes, get : {"pod"}, pod : Pods]
    \cup [metrics : Outcomes, get : {"err", "malformed"}, pod : {ZeroPod}]

\* getContainerStatus(co, status): the status of that name, among the
\* container statuses first, then among those of the init containers.
RECURSIVE Find(_, _)
Find(co, statuses) ==
    IF statuses = <<>> THEN Nil
    ELSE IF Head(statuses) = co THEN Ptr(co) ELSE Find(co, Tail(statuses))

getContainerStatus(co, status) ==
    IF Find(co, status.ContainerStatuses) # Nil
    THEN Find(co, status.ContainerStatuses)
    ELSE Find(co, status.InitContainerStatuses)

makeContainerRes(co, po, cmx, isInit) ==
    [Name   |-> co.Name,
     Status |-> getContainerStatus(co.Name, po.Status),
     MX     |-> cmx,
     IsInit |-> isInit,
     Age    |-> po.Age]

\* The records of the containers cs, in their order.
RECURSIVE Records(_, _, _, _)
Records(cs, po, cmx, isInit) ==
    IF cs = <<>> THEN <<>>
    ELSE <<makeContainerRes(Head(cs), po,
               IF Head(cs).Name \in cmx THEN Ptr(Head(cs).Name) ELSE Nil,
               isInit)>>
         \o Records(Tail(cs), po, cmx, isInit)

\* Container.fetchPod(fqn).
fetchPod(w) ==
    IF w.get = "err" THEN [po |-> Nil, err |-> "get"]
    ELSE IF w.get = "malformed" THEN [po |-> ZeroPod, err |-> "convert"]
    ELSE [po |-> w.pod, err |-> ""]

\* The container metrics of a List: fetched when the context asks for them
\* or does not say, and empty when not fetched or when the fetch fails.
ContainersMetrics(ctx, w) ==
    IF ctx.KeyWithMetrics \in {"true", "none"} /\ w.metrics = "ok"
    THEN {w.pod.InitContainers[i].Name : i \in DOMAIN w.pod.InitContainers}
         \cup {w.pod.Containers[i].Name : i \in DOMAIN w.pod.Containers}
    ELSE {}

\* A List that gives up when the metrics fetch fails.
ListStrictMetrics(ctx, w) ==
    IF ctx.KeyPath = NoPath THEN [res |-> <<>>, err |-> "no context path"]
    ELSE IF ctx.KeyWithMetrics \in {"true", "none"} /\ w.metrics # "ok"
    THEN [res |-> <<>>, err |-> "metrics"]
    ELSE LET cmx == ContainersMetrics(ctx, w)
             f   == fetchPod(w)
         IN  IF f.err # "" THEN [res |-> <<>>, err |-> f.err]
             ELSE [res |-> Records(f.po.InitContainers, f.po, cmx, TRUE)
                           \o Records(f.po.Containers, f.po, cmx, FALSE),
                   err |-> ""]

\* A List that takes the regular containers first.
ListRegularFirst(ctx, w) ==
    IF ctx.KeyPath = NoPath THEN [res |-> <<>>, err |-> "no context path"]
    ELSE LET cmx == ContainersMetrics(ctx, w)
             f   == fetchPod(w)
         IN  IF f.err # "" THEN [res |-> <<>>, err |-> f.err]
             ELSE [res |-> Records(f.po.Containers, f.po, cmx, FALSE)
                           \o Records(f.po.InitContainers, f.po, cmx, TRUE),
                   err |-> ""]

\* Container.List(ctx, _): the records and the error it returns.
List(ctx, w) ==
    IF ctx.KeyPath = NoPath THEN [res |-> <<>>, err |-> "no context path"]
    ELSE LET cmx == ContainersMetrics(ctx, w)
             f   == fetchPod(w)
         IN  IF f.err # "" THEN [res |-> <<>>, err |-> f.err]
             ELSE [res |-> Records(f.po.InitContainers, f.po, cmx, TRUE)
                           \o Records(f.po.Containers, f.po, cmx, FALSE),
                   err |-> ""]

\* A Get that asks the factory once the accessor is bound.
GetWhenBound(n, ctx, path) ==
    IF n.tab = 0 THEN [res |-> Nil, err |-> "NYI!"]
    ELSE [res |-> Ptr(path), err |-> ""]

\* NonResource.Get(ctx, path) on the NonResource n.
Get(n, ctx, path) == [res |-> Nil, err |-> "NYI!"]

\* What the cluster answers to a TailLogs: whether the logs of the pod may
\* be read, and the pod.
LogWorlds == [access : Outcomes, pod : Pods]

\* Pod.TailLogs(ctx, opts) of a pod accessor bound to the factory f and the
\* identifier gvr: no stream without access; one stream per container of
\* the pod when all containers or several pods are asked for, and one
\* stream, of the container asked for, otherwise.
PodTailLogs(f, gvr, ctx, o, w) ==
    IF w.access # "ok" THEN [res |-> <<>>, err |-> "access"]
    ELSE [res |->
            [i \in DOMAIN (IF o.AllContainers \/ o.MultiPods
                           THEN NamesOf(w.pod.InitContainers)
                                \o NamesOf(w.pod.Containers)
                           ELSE <<o.Container>>) |->
                [factory |-> f, gvr |-> gvr, ctx |-> ctx, path |-> o.Path,
                 co |-> (IF o.AllContainers \/ o.MultiPods
                         THEN NamesOf(w.pod.InitContainers)
                              \o NamesOf(w.pod.Containers)
                         ELSE <<o.Container>>)[i]]],
          err |-> ""]

\* A TailLogs that leaves its pod accessor unbound.
DelegatedUnbound(n, ctx, h, w) ==
    [calls |-> <<[call |-> "Pod.TailLogs", f |-> <<0, 0>>, gvr |-> "",
                  ctx |-> ctx, opts |-> ref[h]]>>,
     out   |-> PodTailLogs(<<0, 0>>, "", ctx, Deref(h), w)]

\* Container.TailLogs(ctx, opts) on the NonResource n, opts being the h-th
\* pointer: the calls it makes and what it returns.
Delegated(n, ctx, h, w) ==
    [calls |-> <<[call |-> "Pod.Init", f |-> <<n.tab, n.data>>,
                  gvr |-> "v1/pods", ctx |-> NoPath, opts |-> 0],
                 [call |-> "Pod.TailLogs", f |-> <<n.tab, n.data>>,
                  gvr |-> "v1/pods", ctx |-> ctx, opts |-> ref[h]]>>,
     out   |-> PodTailLogs(<<n.tab, n.data>>, "v1/pods", ctx, Deref(h), w)]

\* The options a log view hands to TailLogs, for all containers or for one.
TailedOptions ==
    { buildLogOpts(path, co, FALSE, cfg.TailCount, cfg.ShowTime) :
        path \in ShownPaths, co \in {"", "c1"}, cfg \in LoggerConfigs }

\* The factories an accessor may be bound to.
Factories == {1}

\* A Container accessor not yet bound, and the options of a log view.
InitContainer ==
    /\ \E o \in TailedOptions : heap = <<o>>
    /\ ref = <<1>>
    /\ last = NoCall
    /\ nwrites = 0
    /\ NoView
    /\ NoDao

\* The record of a finished call of the accessor.
Done(op, ctx, in, out, calls) ==
    [op |-> op, ctx |-> ctx, in |-> in, res |-> out.res, err |-> out.err,
     calls |-> calls, bound |-> nr.tab # 0]

\* Init(f, gvr), with nothing else running.
ContainerInit(f) ==
    /\ nr' = [nr EXCEPT !.tab = f, !.data = f, !.gvr = f]
    /\ ops' = <<Done("Init", NoPath, f, [res |-> <<>>, err |-> ""], <<>>)>>
    /\ UNCHANGED <<logVars, viewVars, streams>>

\* Container.List(ctx, _) on a bound accessor.
ContainerList(ctx, w) ==
    /\ nr.tab # 0
    /\ ops' = <<Done("List", ctx, w, List(ctx, w), <<>>)>>
    /\ UNCHANGED <<nr, logVars, viewVars, streams>>

\* Get(ctx, path), called on a NonResource or on the Container that embeds
\* one, bound or not.
ContainerGet(recv, ctx, path) ==
    /\ ops' = <<Done(recv, ctx, path, Get(nr, ctx, path), <<>>)>>
    /\ UNCHANGED <<nr, logVars, viewVars, streams>>

\* Container.TailLogs(ctx, opts) on a bound accessor.
ContainerTailLogs(ctx, h, w) ==
    /\ nr.tab # 0
    /\ LET t == Delegated(nr, ctx, h, w)
       IN  ops' = <<Done("TailLogs", ctx, w, t.out, t.calls)>>
    /\ UNCHANGED <<nr, logVars, viewVars, streams>>

-----------------------------------------------------------------------------
(* Specifications.                                                         *)

\* ToPodLogOptions applied to every LogOptions value.
NextPod == \E h \in Refs : ToPodLogOptions(h)

SpecPod == InitAny /\ [][NextPod]_vars

\* ToggleAllContainers applied, again and again, to every LogOptions value.
NextToggle == \E h \in Refs : ToggleAllContainers(h)

SpecToggle == InitAny /\ [][NextToggle]_vars

\* The options of a log view, toggled at will and translated to fetch
\* parameters in between.
NextFresh ==
    \/ \E h \in Refs : ToggleAllContainers(h)
    \/ \E h \in Refs : ToPodLogOptions(h)

SpecFresh == InitFresh /\ [][NextFresh]_vars

\* Clone applied to every LogOptions value.
NextClone == \E h \in Refs : Clone(h)

SpecClone == InitAny /\ [][NextClone]_vars

\* Toggles and clones, in any order, of options whose mode flags are not
\* both set.
NextMode ==
    \/ \E h \in Refs : ToggleAllContainers(h)
    \/ \E h \in Refs : Clone(h)

SpecMode == InitMode /\ [][NextMode]_vars

\* The life of the options of a log view: built, cloned, and then changed
\* through either pointer.
Next ==
    \/ \E h \in Refs : Clone(h)
    \/ \E h \in Refs : ToggleAllContainers(h)
    \/ \E h \in Refs, f \in Fields : \E v \in Assigned[f] : Write(h, f, v)

Spec == InitBuilt /\ [][Next]_vars

\* A view is composed of extenders, binds its keys, and then handles key
\* presses and the buttons of the dialogs it opens.
NextView ==
    \/ \E fn \in BOOLEAN : NewLogsExtender(fn)
    \/ NewImageExtender
    \/ BindKeys
    \/ \E k \in DOMAIN keys, sel \in SelPaths, in \in LogsAnswers :
            LogsKey(k, sel, in)
    \/ \E k \in DOMAIN keys, sel \in SelPaths, in \in ImageAnswers :
            SetImageKey(k, sel, in)
    \/ \E k \in DOMAIN keys, sel \in SelPaths : TraceLogsKey(k, sel)
    \/ \E in \in ImageAnswers : ImageOK(in)
    \/ \E b \in {"Cancel", "Done"} : Dismiss(b)
    \/ \E b \in {"Start", "Stop"}, in \in ExecAnswers : TraceButton(b, in)

SpecView == InitView /\ [][NextView]_vars

\* A view that may have bindings of its own is composed of extenders, binds
\* its keys, and then handles the keys pressed over a pod.
NextKeys ==
    \/ \E fn \in BOOLEAN : NewLogsExtender(fn)
    \/ NewImageExtender
    \/ BindKeys
    \/ \E k \in DOMAIN keys, in \in LogsAnswers :
            LogsKey(k, PathNsName, in)
    \/ \E k \in DOMAIN keys, in \in ImageAnswers :
            SetImageKey(k, PathNsName, in)
    \/ \E k \in DOMAIN keys : TraceLogsKey(k, PathNsName)

SpecKeys == InitKeys /\ [][NextKeys]_vars

\* One TailLogs call, and then its streams, each on its own.
NextStreams ==
    \/ \E n \in 1..MaxStreams : TailLogs(n)
    \/ \E i \in DOMAIN streams : Deliver(i)
    \/ \E i \in DOMAIN streams : Fail(i)
    \/ \E i \in DOMAIN streams : Close(i)

SpecStreams == InitStreams /\ [][NextStreams]_vars

\* Operations of one accessor, begun in any order and interleaved at will.
NextAccessor ==
    \/ \E p \in DOMAIN ops, op \in OpKinds : \E arg \in OpArgs(op) :
            Begin(p, op, arg)
    \/ \E p \in DOMAIN ops : InitLock(p)
    \/ \E p \in DOMAIN ops : InitStore(p)
    \/ \E p \in DOMAIN ops : InitUnlock(p)
    \/ \E p \in DOMAIN ops : RLock(p)
    \/ \E p \in DOMAIN ops : LockedLoad(p)
    \/ \E p \in DOMAIN ops : RUnlock(p)
    \/ \E p \in DOMAIN ops : ListNoPath(p)
    \/ \E p \in DOMAIN ops : ListMetrics(p)
    \/ \E p \in DOMAIN ops : TailLogsLoad(p)

SpecAccessor == InitAccessor /\ [][NextAccessor]_vars

\* The calls of a Container accessor, one at a time.
NextContainer ==
    \/ \E f \in Factories : ContainerInit(f)
    \/ \E ctx \in Contexts, w \in Worlds : ContainerList(ctx, w)
    \/ \E recv \in {"NonResource.Get", "Container.Get"}, ctx \in Contexts,
          path \in {NoPath, "ns1/po1"} : ContainerGet(recv, ctx, path)
    \/ \E ctx \in Contexts, h \in Refs, w \in LogWorlds :
            ContainerTailLogs(ctx, h, w)

SpecContainer == InitContainer /\ [][NextContainer]_vars

-----------------------------------------------------------------------------
(* Properties.                                                             *)

\* The receiver of the most recent call, before the call and after it.
Arg == last.pre[ref[last.via]]
Now == heap[ref[last.via]]

\* The fields ToggleAllContainers may write.
ToggleFields == {"AllContainers", "Container", "DefaultContainer"}

\* C1: with Head set, the fetch parameters have Follow off, no TailLines,
\* no SinceSeconds, no SinceTime, and LimitBytes set to 5000, whatever the
\* other fields of the LogOptions are.
C1_HeadBoundsFetch ==
    (last.op = "ToPodLogOptions" /\ Arg.Head) =>
        /\ last.res.Follow = FALSE
        /\ ~last.res.TailLines.set
        /\ ~last.res.SinceSeconds.set
        /\ ~last.res.SinceTime.set
        /\ last.res.LimitBytes.set
        /\ last.res.LimitBytes.val = 5000

C1_Witness ==
    /\ last.op = "ToPodLogOptions"
    /\ Arg.Head /\ Arg.Previous
    /\ Arg.Lines = 100 /\ Arg.SinceSeconds = 300 /\ Arg.SinceTime = TsLeapDay
    /\ Arg.Container = "c1"
    /\ last.res.LimitBytes.set /\ ~last.res.Follow

\* C2: with a negative SinceSeconds, the fetch parameters carry neither a
\* SinceSeconds nor a SinceTime, whatever the SinceTime string is.
C2_NegativeSinceNoConstraint ==
    (last.op = "ToPodLogOptions" /\ Arg.SinceSeconds < 0) =>
        /\ ~last.res.SinceSeconds.set
        /\ ~last.res.SinceTime.set

C2_Witness ==
    /\ last.op = "ToPodLogOptions"
    /\ ~Arg.Head /\ Arg.SinceSeconds = -1 /\ Arg.SinceTime = TsLeapDay
    /\ last.res.Follow /\ ~last.res.SinceTime.set

\* C3: without Head and with a positive SinceSeconds, the fetch parameters
\* carry that SinceSeconds and no SinceTime, even when the SinceTime string
\* is a valid timestamp.
C3_DurationBeatsTimestamp ==
    (last.op = "ToPodLogOptions" /\ ~Arg.Head /\ Arg.SinceSeconds > 0) =>
        /\ last.res.SinceSeconds.set
        /\ last.res.SinceSeconds.val = Arg.SinceSeconds
        /\ ~last.res.SinceTime.set

C3_Witness ==
    /\ last.op = "ToPodLogOptions"
    /\ ~Arg.Head /\ Arg.SinceSeconds = 300 /\ Arg.SinceTime = TsZoned
    /\ ParseRFC3339(Arg.SinceTime).ok
    /\ last.res.SinceSeconds.val = 300

\* C4: without Head, with SinceSeconds = 0 and a SinceTime string that
\* parses, the SinceTime of the fetch parameters is the parsed instant plus
\* one second, and SinceSeconds is unset.
C4_BoundaryIsParsedPlusOneSecond ==
    (/\ last.op = "ToPodLogOptions"
     /\ ~Arg.Head /\ Arg.SinceSeconds = 0
     /\ ParseRFC3339(Arg.SinceTime).ok) =>
        /\ last.res.SinceTime.set
        /\ last.res.SinceTime.val.sec = ParseRFC3339(Arg.SinceTime).t.sec + 1
        /\ last.res.SinceTime.val.nsec = ParseRFC3339(Arg.SinceTime).t.nsec
        /\ last.res.SinceTime.val.off = ParseRFC3339(Arg.SinceTime).t.off
        /\ ~last.res.SinceSeconds.set

\* 2024-02-29T23:59:59Z plus one second is 2024-03-01T00:00:00Z, which is
\* 1709251200 seconds after the epoch.
C4_Witness ==
    /\ last.op = "ToPodLogOptions"
    /\ ~Arg.Head /\ Arg.SinceSeconds = 0 /\ Arg.SinceTime = TsLeapDay
    /\ last.res.SinceTime.set
    /\ last.res.SinceTime.val.sec = 1709251200

\* C5: without Head, with SinceSeconds = 0 and a non-empty SinceTime string
\* that does not parse, the fetch parameters are those of an empty
\* SinceTime: no SinceTime, no SinceSeconds, Follow on, TailLines = Lines.
C5_BadTimestampDropped ==
    (/\ last.op = "ToPodLogOptions"
     /\ ~Arg.Head /\ Arg.SinceSeconds = 0
     /\ Arg.SinceTime # EmptyStr
     /\ ~ParseRFC3339(Arg.SinceTime).ok) =>
        /\ last.res = PodLogOptions([Arg EXCEPT !.SinceTime = EmptyStr])
        /\ ~last.res.SinceTime.set
        /\ ~last.res.SinceSeconds.set
        /\ last.res.Follow
        /\ last.res.TailLines.set
        /\ last.res.TailLines.val = Arg.Lines

C5_Witness ==
    /\ last.op = "ToPodLogOptions"
    /\ ~Arg.Head /\ Arg.SinceSeconds = 0 /\ Arg.SinceTime = TsBadDay
    /\ Arg.Lines = 100
    /\ last.res.Follow /\ last.res.TailLines.val = 100
    /\ ~last.res.SinceTime.set

\* C6: the struct Clone returns equals its receiver in every field.
C6_CloneEqualsOriginal ==
    (last.op = "Clone") => \A f \in Fields : heap[ref[last.res]][f] = Arg[f]

\* C7: a write or a toggle through one pointer leaves the struct behind
\* every other pointer as it was: a clone and its original do not share.
C7_CloneIndependent ==
    [][(last'.op \in {"Write", "ToggleAllContainers"}) =>
          \A h \in Refs \ {last'.via} : heap'[ref[h]] = heap[ref[h]]]_vars

\* The clone's container name was assigned and the original kept its own.
C7_Witness ==
    /\ Len(ref) = 2 /\ ref[1] # ref[2]
    /\ last.op = "Write" /\ last.via = 2 /\ last.res = "Container"
    /\ heap[ref[2]].Container = "c2"
    /\ heap[ref[1]].Container = "c1"

\* C8: with SingleContainer set, a ToggleAllContainers call changes no
\* field, and a second call in a row leaves the struct as it was before the
\* first.
C8_SingleContainerToggleNoOp ==
    [][(last'.op = "ToggleAllContainers" /\ Deref(last'.via).SingleContainer)
         => /\ heap' = heap
            /\ (last'.run = 2 => heap' = last.pre)]_vars

C8_Witness ==
    /\ last.op = "ToggleAllContainers" /\ last.run = 2
    /\ Now.SingleContainer
    /\ Now.Container = "c1" /\ Now.DefaultContainer = "c2"
    /\ Now = Arg

\* C9: without SingleContainer, one ToggleAllContainers call on a struct
\* with AllContainers off turns it on, moves Container to DefaultContainer
\* and empties Container; on a struct with AllContainers on it turns it off
\* and sets Container to DefaultContainer when that is non-empty, leaving
\* Container alone otherwise.  No other field changes.
C9_ToggleEffect ==
    (last.op = "ToggleAllContainers" /\ ~Arg.SingleContainer) =>
        /\ \A f \in Fields \ ToggleFields : Now[f] = Arg[f]
        /\ Now.AllContainers = ~Arg.AllContainers
        /\ ~Arg.AllContainers =>
              /\ Now.DefaultContainer = Arg.Container
              /\ Now.Container = ""
        /\ Arg.AllContainers =>
              /\ Now.DefaultContainer = Arg.DefaultContainer
              /\ Arg.DefaultContainer # "" =>
                    Now.Container = Arg.DefaultContainer
              /\ Arg.DefaultContainer = "" =>
                    Now.Container = Arg.Container

C9_Witness ==
    /\ last.op = "ToggleAllContainers"
    /\ ~Arg.SingleContainer /\ Arg.AllContainers
    /\ Arg.DefaultContainer = "c1" /\ Arg.Container = "c2"
    /\ Now.Container = "c1" /\ ~Now.AllContainers

\* C10: without SingleContainer and with AllContainers off, two
\* ToggleAllContainers calls in a row bring Container and AllContainers
\* back to what they were before the first call.
C10_ToggleTwiceRestores ==
    [][(/\ last'.op = "ToggleAllContainers" /\ last'.run = 2
        /\ ~last.pre[ref[last'.via]].SingleContainer
        /\ ~last.pre[ref[last'.via]].AllContainers)
         => /\ heap'[ref[last'.via]].Container
                 = last.pre[ref[last'.via]].Container
            /\ heap'[ref[last'.via]].AllContainers
                 = last.pre[ref[last'.via]].AllContainers]_vars

C10_Witness ==
    /\ last.op = "ToggleAllContainers" /\ last.run = 2
    /\ Arg.AllContainers /\ Arg.Container = "" /\ Arg.DefaultContainer = "c1"
    /\ ~Now.AllContainers /\ Now.Container = "c1"

\* C11: from options in which AllContainers and SingleContainer are not
\* both set, no sequence of ToggleAllContainers and Clone calls makes a
\* struct in which both are set.
C11_ModesExclusive ==
    \A a \in DOMAIN heap :
        ~(heap[a].AllContainers /\ heap[a].SingleContainer)

\* A single-container struct was cloned and the clone was toggled.
C11_Witness ==
    /\ Len(ref) = 2
    /\ last.op = "ToggleAllContainers" /\ last.via = 2
    /\ Arg.SingleContainer /\ ~Now.AllContainers
    /\ heap[ref[1]].SingleContainer

-----------------------------------------------------------------------------
(* Log streams.                                                            *)

\* How many error entries a sequence of entries has.
RECURSIVE Errors(_)
Errors(out) ==
    IF out = <<>> THEN 0
    ELSE (IF Head(out).IsError THEN 1 ELSE 0) + Errors(Tail(out))

\* C12: when the source of a stream fails, exactly one error entry, with
\* IsError set, is delivered on that stream, as its last entry, and the
\* stream is then closed; a closed stream never changes again (no retry);
\* the step in which one stream fails changes no other stream of the same
\* TailLogs call.
C12_StreamFailureLocal ==
    [][\A i \in DOMAIN streams' :
          /\ streams'[i].failed =>
                /\ streams'[i].state = "closed"
                /\ Errors(streams'[i].out) = 1
                /\ streams'[i].out[Len(streams'[i].out)].IsError
          /\ ~streams'[i].failed => Errors(streams'[i].out) = 0
          /\ i \in DOMAIN streams =>
                /\ streams[i].state = "closed" => streams'[i] = streams[i]
                /\ (streams'[i].failed /\ ~streams[i].failed) =>
                      \A j \in DOMAIN streams \ {i} :
                          streams'[j] = streams[j]]_vars

\* The first of two streams failed at time 1, and the second, still open,
\* delivered a line after that.
C12_Witness ==
    /\ Len(streams) = 2
    /\ streams[1].failed /\ streams[1].state = "closed"
    /\ streams[1].out = <<ToErrLogItem(1, "EOF")>>
    /\ streams[2].state = "open"
    /\ streams[2].out = <<NewLogItem(<<2, "line">>)>>

-----------------------------------------------------------------------------
(* Extension layers and their commands.                                    *)

\* The j-th layer binds the key k.
LayerBinds(j, k) ==
    \/ layers[j].kind = "logs" /\ k \in {"L", "P"}
    \/ layers[j].kind = "image" /\ ~app.readOnly /\ k \in {"I", "T", "O"}

\* C13: a key press is handled by the outermost of the layers that bind the
\* key, never by a layer further in: the handler is of that layer's kind,
\* and a logs handler calls optionsFn only if that layer has one.
C13_OuterBindingWins ==
    ev.src = "key" =>
        /\ ev.layer \in DOMAIN layers
        /\ LayerBinds(ev.layer, ev.key)
        /\ \A j \in DOMAIN layers : LayerBinds(j, ev.key) => j <= ev.layer
        /\ (layers[ev.layer].kind = "logs") = (ev.cmd \in {"logs", "logsPrev"})
        /\ Count(ev.trace, "optionsFn") > 0 => layers[ev.layer].optionsFn

\* Two image layers, and the press of I went to the outer one.
C13_Witness ==
    /\ Len(layers) = 2
    /\ layers[1].kind = "image" /\ layers[2].kind = "image"
    /\ ev.src = "key" /\ ev.key = "I" /\ ev.layer = 2
    /\ ev.trace # <<>>

\* C14: a command handler run on an empty selection makes no call at all
\* (no Stop, no Start, no access check, no dialog, no view, no notification)
\* and leaves the application as it was.
C14_EmptySelectionNoOp ==
    [][(ev'.src = "key" /\ ev'.sel = EmptyStr) =>
          (ev'.trace = <<>> /\ app' = app)]_vars

\* The previous-logs key was pressed with nothing selected, after a
\* set-image dialog was opened.
C14_Witness ==
    /\ ev.src = "key" /\ ev.cmd = "logsPrev" /\ ev.sel = EmptyStr
    /\ ev.trace = <<>>
    /\ app.dialog = "image"

\* The path has a slash with something other than slashes before its last
\* slash: a namespace part.
HasNamespacePart(p) ==
    \E i \in DOMAIN p :
        /\ p[i] = "/"
        /\ \A j \in DOMAIN p : j > i => p[j] # "/"
        /\ \E j \in DOMAIN p : j < i /\ p[j] # "/"

\* The path has something after its last slash: a name part.
HasNamePart(p) ==
    /\ p # <<>>
    /\ p[Len(p)] # "/"

\* C15: isResourcePath holds of a path iff the path has a namespace part
\* and a name part; the logs handler run on a non-empty selection calls
\* showLogs, once and first, with the selection when that is resource-shaped
\* and with the path of the view when it is not.
C15_LogsPathSubstitution ==
    /\ \A p \in SelPaths \cup {TablePath} :
          isResourcePath(p) = (HasNamespacePart(p) /\ HasNamePart(p))
    /\ (ev.src = "key" /\ ev.cmd \in {"logs", "logsPrev"}
            /\ ev.sel # EmptyStr) =>
          /\ Count(ev.trace, "showLogs") = 1
          /\ ev.trace[1].call = "showLogs"
          /\ ev.trace[1].path =
                IF HasNamespacePart(ev.sel) /\ HasNamePart(ev.sel)
                THEN ev.sel ELSE TablePath

\* The logs key was pressed on a bare name, and showLogs got the path of
\* the view.
C15_Witness ==
    /\ ev.src = "key" /\ ev.cmd = "logs" /\ ev.sel = PathBare
    /\ ev.trace[1] = E("showLogs", TablePath, "current")

\* C16: in every command handler run on a non-empty selection that is not
\* resource-shaped, each call that is given a path is given the path of the
\* view (or its namespace), never the selected one.
C16_EveryCommandSubstitutes ==
    (ev.src = "key" /\ ev.sel # EmptyStr /\ ~isResourcePath(ev.sel)) =>
        \A i \in DOMAIN ev.trace :
            ev.trace[i].path \in
                {<<>>, TablePath, Namespaced(TablePath).ns}

\* C17: a set-image or trace-logs handler run on a non-empty selection
\* calls Stop once, as its first call, and Start once, as its last call,
\* whether or not the dialog could be built; the loop runs when it returns.
C17_StopThenStart ==
    (ev.src = "key" /\ ev.cmd \in {"setImage", "traceLogs"}
        /\ ev.sel # EmptyStr) =>
        /\ Count(ev.trace, "Stop") = 1
        /\ Count(ev.trace, "Start") = 1
        /\ ev.trace[1].call = "Stop"
        /\ ev.trace[Len(ev.trace)].call = "Start"
        /\ app.running

\* The set-image dialog could not be built: no pod spec.
C17_Witness ==
    /\ ev.src = "key" /\ ev.cmd = "setImage"
    /\ Count(ev.trace, "GetPodSpec") = 1
    /\ Count(ev.trace, "Flash.Err") = 1
    /\ Count(ev.trace, "ShowPage") = 0
    /\ app.running

\* C18: while a dialog page is shown the loop is suspended.
C18_SuspendedWhileDialogOpen ==
    app.dialog # "none" => ~app.running

\* SetImages was called and succeeded.
ImagesSet(tr) ==
    \E i \in DOMAIN tr : tr[i].call = "SetImages" /\ tr[i].out = "ok"

\* C19: the OK button of the set-image form removes the dialog page, once,
\* whatever SetImages or the accessor lookup answer, and notifies exactly
\* once: an info after a success, an error after a failure.  Cancel and
\* done remove the page without calling SetImages.
C19_SubmitReturnsToIdle ==
    /\ (ev.src = "button" /\ ev.cmd = "imageOK") =>
          /\ app.dialog = "none"
          /\ Count(ev.trace, "RemovePage") = 1
          /\ Count(ev.trace, "Flash.Err") + Count(ev.trace, "Flash.Info") = 1
          /\ ImagesSet(ev.trace) = (Count(ev.trace, "Flash.Info") = 1)
    /\ (ev.src = "button" /\ ev.cmd \in {"Cancel", "Done"}) =>
          /\ app.dialog = "none"
          /\ Count(ev.trace, "SetImages") = 0

\* OK was pressed and the accessor lookup failed.
C19_Witness ==
    /\ ev.src = "button" /\ ev.cmd = "imageOK"
    /\ ev.trace[1] = E("AccessorFor", <<>>, "err")
    /\ Count(ev.trace, "Flash.Err") = 1
    /\ app.dialog = "none"

\* C20: showLogs checks the access to the namespace of its path exactly
\* once, before it builds options and before it pushes a view, and notifies
\* of at most one error; when the check fails it builds no options, asks no
\* optionsFn, pushes no view, and notifies of exactly one error.
C20_AccessCheckedOnceFirst ==
    [][(ev'.src = "key" /\ Count(ev'.trace, "showLogs") > 0) =>
          LET tr == ev'.trace
              c  == Index(tr, "CanForResource")
          IN  /\ Count(tr, "CanForResource") = 1
              /\ tr[c].path = Namespaced(ev'.path).ns
              /\ Index(tr, "buildLogOpts") # 0 => c < Index(tr, "buildLogOpts")
              /\ Index(tr, "inject") # 0 => c < Index(tr, "inject")
              /\ Count(tr, "Flash.Err") <= 1
              /\ tr[c].out # "ok" =>
                    /\ Count(tr, "buildLogOpts") = 0
                    /\ Count(tr, "optionsFn") = 0
                    /\ Count(tr, "inject") = 0
                    /\ app'.nviews = app.nviews
                    /\ Count(tr, "Flash.Err") = 1]_vars

\* The logs key was pressed on a pod and the access was denied.
C20_Witness ==
    /\ ev.src = "key" /\ ev.cmd = "logs" /\ ev.sel = PathNsName
    /\ ev.trace = <<E("showLogs", PathNsName, "current"),
                    E("CanForResource", Namespaced(PathNsName).ns, "err"),
                    E("Flash.Err", <<>>, "access")>>

\* The accessor lookup of a handler found no accessor, or one without pod
\* specs.
NoCapability(tr) ==
    \E i \in DOMAIN tr :
        tr[i].call = "AccessorFor" /\ tr[i].out \in {"err", "plain"}

\* C21: when the set-image handler finds no accessor for the kind of the
\* view, or one that is not a ContainsPodSpec, it calls neither GetPodSpec
\* nor SetImages, adds and shows no page (the dialog state stays as it
\* was), notifies of exactly one error, and ends with Start, the loop
\* running.
C21_CapabilityCheckedFirst ==
    [][(ev'.src = "key" /\ ev'.cmd = "setImage" /\ NoCapability(ev'.trace)) =>
          /\ Count(ev'.trace, "GetPodSpec") = 0
          /\ Count(ev'.trace, "SetImages") = 0
          /\ Count(ev'.trace, "AddPage") = 0
          /\ Count(ev'.trace, "ShowPage") = 0
          /\ app'.dialog = app.dialog
          /\ Count(ev'.trace, "Flash.Err") = 1
          /\ Count(ev'.trace, "Flash.Info") = 0
          /\ ev'.trace[Len(ev'.trace)].call = "Start"
          /\ app'.running]_vars

\* The set-image key was pressed on a pod of a kind whose accessor has no
\* pod specs.
C21_Witness ==
    /\ ev.src = "key" /\ ev.cmd = "setImage" /\ ev.sel = PathNsName
    /\ ev.trace = <<E("Stop", <<>>, ""), E("AccessorFor", <<>>, "plain"),
                    E("Flash.Err", <<>>, "dialog"), E("Start", <<>>, "")>>
    /\ app.dialog = "none" /\ app.running

-----------------------------------------------------------------------------
(* Accessors.                                                              *)

\* The numbers an operation has seen so far, over all its loads.
Seen(obs) == UNION {{obs[i].words[j] : j \in DOMAIN obs[i].words} :
                    i \in DOMAIN obs}

\* C22: every load of the factory or the gvr of an accessor is made under
\* the lock, and all that one operation loads comes from one Init.
C22_NoPartialRebind ==
    \A p \in DOMAIN ops :
        /\ \A i \in DOMAIN ops[p].obs : ops[p].obs[i].locked
        /\ Cardinality(Seen(ops[p].obs)) <= 1

\* The call the accessor has just finished.
Ret == ops[1]

\* Container.List has just returned.
Listed == ops # <<>> /\ Ret.op = "List"

\* C23: a successful List of a pod with m init containers and n regular
\* containers returns m + n records: the init containers in their declared
\* order, each with IsInit set, then the regular containers in their
\* declared order, each with IsInit not set.
C23_InitThenRegular ==
    (Listed /\ Ret.err = "") =>
        LET po == Ret.in.pod
            m  == Len(po.InitContainers)
            n  == Len(po.Containers)
        IN  /\ Len(Ret.res) = m + n
            /\ \A i \in 1..m :
                  /\ Ret.res[i].Name = po.InitContainers[i].Name
                  /\ Ret.res[i].IsInit
            /\ \A j \in 1..n :
                  /\ Ret.res[m + j].Name = po.Containers[j].Name
                  /\ ~Ret.res[m + j].IsInit

\* A pod that declares i2, i1 and then c2, c1 was listed.
C23_Witness ==
    /\ Listed /\ Ret.err = ""
    /\ NamesOf(Ret.in.pod.InitContainers) = <<"i2", "i1">>
    /\ NamesOf(Ret.in.pod.Containers) = <<"c2", "c1">>
    /\ NamesOf(Ret.res) = <<"i2", "i1", "c2", "c1">>
    /\ Ret.res[2].IsInit /\ ~Ret.res[3].IsInit

\* The names and the init marks of a sequence of records.
RECURSIVE Shape(_)
Shape(rs) ==
    IF rs = <<>> THEN <<>>
    ELSE <<<<Head(rs).Name, Head(rs).IsInit>>>> \o Shape(Tail(rs))

\* A failed metrics fetch makes no difference to the error of a List nor
\* to the names, marks and order of its records, which then carry no
\* metrics.
MetricsBestEffort ==
    Listed =>
        LET bad  == List(Ret.ctx, [Ret.in EXCEPT !.metrics = "err"])
            good == List(Ret.ctx, [Ret.in EXCEPT !.metrics = "ok"])
        IN  /\ bad.err = good.err
            /\ Shape(bad.res) = Shape(good.res)
            /\ \A i \in DOMAIN bad.res : bad.res[i].MX = Nil
            /\ Ret.in.metrics = "err" => Ret = [Ret EXCEPT !.res = bad.res,
                                                           !.err = bad.err]

\* C24, as stated: metrics are best-effort, and a List fails, with no
\* records, only when its context has no path or when the Get of the pod
\* through the Factory fails.
C24_ListFailsOnlyOnPathOrGet ==
    /\ MetricsBestEffort
    /\ (Listed /\ Ret.err # "") =>
          /\ Ret.res = <<>>
          /\ Ret.ctx.KeyPath = NoPath \/ Ret.in.get = "err"

\* C24, amended: metrics are best-effort, and a List fails, with no
\* records, only when its context has no path, when the Get of the pod
\* through the Factory fails, or when the object got does not convert to a
\* pod.
C24_ListFailsOnlyOnPathGetOrConvert ==
    /\ MetricsBestEffort
    /\ (Listed /\ Ret.err # "") =>
          /\ Ret.res = <<>>
          /\ \/ Ret.ctx.KeyPath = NoPath
             \/ Ret.in.get = "err"
             \/ Ret.in.get = "malformed"

\* Metrics were asked for and their fetch failed; the three containers of
\* the pod were listed all the same, without metrics.
C24_Witness ==
    /\ Listed /\ Ret.err = ""
    /\ Ret.ctx.KeyWithMetrics = "true" /\ Ret.in.metrics = "err"
    /\ NamesOf(Ret.res) = <<"i1", "c1", "c2">>
    /\ \A i \in DOMAIN Ret.res : Ret.res[i].MX = Nil

\* C25: Get on a NonResource, and on the Container that embeds it, returns
\* no object and the error NYI!, for every context and path, bound or not.
C25_GetNotImplemented ==
    (ops # <<>> /\ Ret.op \in {"NonResource.Get", "Container.Get"}) =>
        /\ Ret.res = Nil
        /\ Ret.err = "NYI!"

\* Get was called on a bound Container, with a path.
C25_Witness ==
    /\ ops # <<>> /\ Ret.op = "Container.Get"
    /\ Ret.bound /\ Ret.in = "ns1/po1"
    /\ Ret.res = Nil /\ Ret.err = "NYI!"

\* C26: Container.TailLogs leaves the options as they are and returns what
\* Pod.TailLogs returns for the same context and the same pointer, on a pod
\* accessor bound to the factory of the Container and to v1/pods.
C26_TailLogsDelegates ==
    [][(ops' # <<>> /\ ops'[1].op = "TailLogs") =>
          LET r == ops'[1]
              c == r.calls[Len(r.calls)]
          IN  /\ heap' = heap /\ ref' = ref
              /\ Len(r.calls) = 2
              /\ r.calls[1].call = "Pod.Init"
              /\ r.calls[1].f = <<nr.tab, nr.data>>
              /\ r.calls[1].gvr = "v1/pods"
              /\ c.call = "Pod.TailLogs"
              /\ c.ctx = r.ctx
              /\ c.opts = ref[1]
              /\ [res |-> r.res, err |-> r.err] =
                    PodTailLogs(<<nr.tab, nr.data>>, "v1/pods", r.ctx,
                                heap[ref[1]], r.in)]_vars

\* The logs of the container c1 were tailed: one stream, from the factory
\* of the accessor.
C26_Witness ==
    /\ ops # <<>> /\ Ret.op = "TailLogs" /\ Ret.err = ""
    /\ heap[ref[1]].Container = "c1"
    /\ Len(Ret.res) = 1
    /\ Ret.res[1].co = "c1" /\ Ret.res[1].factory = <<1, 1>>
    /\ Ret.res[1].gvr = "v1/pods"

-----------------------------------------------------------------------------
(* Options of a log view.                                                  *)

\* C27: in options made by buildLogOpts and then toggled any number of
\* times, AllContainers on means Container empty, and the fetch parameters
\* made from options with AllContainers on name no container.
C27_AllContainersNamesNone ==
    /\ \A a \in DOMAIN heap :
          heap[a].AllContainers => heap[a].Container = ""
    /\ (last.op = "ToPodLogOptions" /\ Arg.AllContainers) =>
          last.res.Container = ""

\* Options built for the container c1 were toggled to all containers and
\* then translated.
C27_Witness ==
    /\ last.op = "ToPodLogOptions"
    /\ Arg.AllContainers /\ Arg.DefaultContainer = "c1"
    /\ last.res.Container = ""

-----------------------------------------------------------------------------
(* The bindings of the image extender.                                     *)

ImageKeys == {"I", "T", "O"}

\* C28: under a read-only configuration the image extender of any layer
\* leaves every collection of bindings as it finds it, one with a binding
\* for I included, so that no key is bound to the set-image or trace-logs
\* handler, no press reaches them, and a binding of the view for I, T or O
\* is still the one in effect; under any other configuration it adds the
\* keys I, T and O, bound to its own handlers, and nothing else.
C28_ReadOnlyBindsNothing ==
    /\ \A base \in BaseKeys \cup {keys}, i \in 1..MaxLayers :
          /\ ImageBindKeys(base, i, TRUE) = base
          /\ LET after == ImageBindKeys(base, i, FALSE)
             IN  /\ DOMAIN after = DOMAIN base \cup ImageKeys
                 /\ \A k \in DOMAIN base \ ImageKeys : after[k] = base[k]
                 /\ after["I"].cmd = "setImage" /\ after["I"].layer = i
                 /\ after["T"].cmd = "traceLogs" /\ after["T"].layer = i
                 /\ after["O"].cmd = "traceLogs" /\ after["O"].layer = i
    /\ app.readOnly =>
          /\ \A k \in DOMAIN keys :
                /\ keys[k].cmd \notin {"setImage", "traceLogs"}
                /\ k \in ImageKeys => keys[k].layer = 0
          /\ ev.cmd \notin {"setImage", "traceLogs"}
    /\ (~app.readOnly /\ app.phase = "ready"
            /\ \E i \in DOMAIN layers : layers[i].kind = "image") =>
          /\ ImageKeys \subseteq DOMAIN keys
          /\ \A k \in ImageKeys : keys[k].cmd \in {"setImage", "traceLogs"}

\* Read-only: a view with its own binding for I was wrapped in an image
\* extender, the keys were bound, and I is still the binding of the view.
C28_Witness ==
    /\ app.readOnly /\ app.phase = "ready"
    /\ Len(layers) = 2
    /\ layers[1].kind = "logs" /\ layers[2].kind = "image"
    /\ DOMAIN keys = {"I", "L", "P"}
    /\ keys["I"].cmd = "inspect" /\ keys["I"].layer = 0
    /\ ev.src = "key" /\ ev.cmd = "logs"

====
